---- MODULE Spec2Model ----
(***************************************************************************)
(* ConPort schema: the seven table declarations of conport_schema.py and   *)
(* alembic/env.py, the rows a database built from them accepts, and the    *)
(* two drivers (create_conport_tables, run_migrations_online).             *)
(***************************************************************************)
EXTENDS Integers, Sequences, FiniteSets, TLC

(***************************************************************************)
(* Values.  Every stored or bound value is a record [k, v]: k is the kind  *)
(* ("null", "int", "str", "ts", "json"), v a number: the integer, the      *)
(* length of the string, the timestamp, the identity of the JSON document  *)
(* (0 is the JSON document null).                                          *)
(***************************************************************************)
NULL == [k |-> "null", v |-> 0]
IntV(n) == [k |-> "int", v |-> n]
StrV(n) == [k |-> "str", v |-> n]
TsV(n) == [k |-> "ts", v |-> n]
JsonV(n) == [k |-> "json", v |-> n]

\* Column defaults: absent, a scalar value, or the SQL function now().
NoDefault == [k |-> "none", v |-> 0]
func_now == [k |-> "now", v |-> 0]

\* Declared lengths of the String columns.
Len100 == 100
Len200 == 200
Len500 == 500
\* Column('version', Integer, default=1)
VersionDefault == 1
\* len('relates_to_progress')
RelatesToProgressLen == 19

(***************************************************************************)
(* sqlalchemy.Column(name, type, primary_key=, nullable=, default=,        *)
(* onupdate=).  length is 0 for a type without one.  nullable is the       *)
(* keyword as written (TRUE when it is left out).                          *)
(***************************************************************************)
Column(name, type, length, pk, nullable, default, onupdate) ==
    [name |-> name, type |-> type, length |-> length, primary_key |-> pk,
     nullable |-> nullable, default |-> default, onupdate |-> onupdate]

Table(name, columns) == [name |-> name, columns |-> columns]

(***************************************************************************)
(* conport_schema.py: the tables create_conport_tables declares.           *)
(***************************************************************************)
product_context ==
    Table("product_context", <<
        Column("id", "Integer", 0, TRUE, TRUE, NoDefault, NoDefault),
        Column("workspace_id", "String", Len500, FALSE, FALSE, NoDefault, NoDefault),
        Column("content", "JSON", 0, FALSE, TRUE, NoDefault, NoDefault),
        Column("version", "Integer", 0, FALSE, TRUE, IntV(VersionDefault), NoDefault),
        Column("created_at", "DateTime", 0, FALSE, TRUE, func_now, NoDefault),
        Column("updated_at", "DateTime", 0, FALSE, TRUE, func_now, func_now) >>)

active_context ==
    Table("active_context", <<
        Column("id", "Integer", 0, TRUE, TRUE, NoDefault, NoDefault),
        Column("workspace_id", "String", Len500, FALSE, FALSE, NoDefault, NoDefault),
        Column("content", "JSON", 0, FALSE, TRUE, NoDefault, NoDefault),
        Column("version", "Integer", 0, FALSE, TRUE, IntV(VersionDefault), NoDefault),
        Column("created_at", "DateTime", 0, FALSE, TRUE, func_now, NoDefault),
        Column("updated_at", "DateTime", 0, FALSE, TRUE, func_now, func_now) >>)

decisions ==
    Table("decisions", <<
        Column("id", "Integer", 0, TRUE, TRUE, NoDefault, NoDefault),
        Column("workspace_id", "String", Len500, FALSE, FALSE, NoDefault, NoDefault),
        Column("summary", "Text", 0, FALSE, FALSE, NoDefault, NoDefault),
        Column("rationale", "Text", 0, FALSE, TRUE, NoDefault, NoDefault),
        Column("implementation_details", "Text", 0, FALSE, TRUE, NoDefault, NoDefault),
        Column("tags", "JSON", 0, FALSE, TRUE, NoDefault, NoDefault),
        Column("created_at", "DateTime", 0, FALSE, TRUE, func_now, NoDefault),
        Column("updated_at", "DateTime", 0, FALSE, TRUE, func_now, func_now) >>)

progress ==
    Table("progress", <<
        Column("id", "Integer", 0, TRUE, TRUE, NoDefault, NoDefault),
        Column("workspace_id", "String", Len500, FALSE, FALSE, NoDefault, NoDefault),
        Column("status", "String", Len100, FALSE, FALSE, NoDefault, NoDefault),
        Column("description", "Text", 0, FALSE, FALSE, NoDefault, NoDefault),
        Column("parent_id", "Integer", 0, FALSE, TRUE, NoDefault, NoDefault),
        Column("linked_item_type", "String", Len100, FALSE, TRUE, NoDefault, NoDefault),
        Column("linked_item_id", "String", Len500, FALSE, TRUE, NoDefault, NoDefault),
        Column("link_relationship_type", "String", Len100, FALSE, TRUE,
               StrV(RelatesToProgressLen), NoDefault),
        Column("created_at", "DateTime", 0, FALSE, TRUE, func_now, NoDefault),
        Column("updated_at", "DateTime", 0, FALSE, TRUE, func_now, func_now) >>)

system_patterns ==
    Table("system_patterns", <<
        Column("id", "Integer", 0, TRUE, TRUE, NoDefault, NoDefault),
        Column("workspace_id", "String", Len500, FALSE, FALSE, NoDefault, NoDefault),
        Column("name", "String", Len500, FALSE, FALSE, NoDefault, NoDefault),
        Column("description", "Text", 0, FALSE, TRUE, NoDefault, NoDefault),
        Column("tags", "JSON", 0, FALSE, TRUE, NoDefault, NoDefault),
        Column("created_at", "DateTime", 0, FALSE, TRUE, func_now, NoDefault),
        Column("updated_at", "DateTime", 0, FALSE, TRUE, func_now, func_now) >>)

\* Mutant: workspace_id of custom_data without nullable=False.
custom_data_nullable_workspace ==
    Table("custom_data", <<
        Column("id", "Integer", 0, TRUE, TRUE, NoDefault, NoDefault),
        Column("workspace_id", "String", Len500, FALSE, TRUE, NoDefault, NoDefault),
        Column("category", "String", Len200, FALSE, FALSE, NoDefault, NoDefault),
        Column("key", "String", Len500, FALSE, FALSE, NoDefault, NoDefault),
        Column("value", "JSON", 0, FALSE, FALSE, NoDefault, NoDefault),
        Column("created_at", "DateTime", 0, FALSE, TRUE, func_now, NoDefault),
        Column("updated_at", "DateTime", 0, FALSE, TRUE, func_now, func_now) >>)

custom_data ==
    Table("custom_data", <<
        Column("id", "Integer", 0, TRUE, TRUE, NoDefault, NoDefault),
        Column("workspace_id", "String", Len500, FALSE, FALSE, NoDefault, NoDefault),
        Column("category", "String", Len200, FALSE, FALSE, NoDefault, NoDefault),
        Column("key", "String", Len500, FALSE, FALSE, NoDefault, NoDefault),
        Column("value", "JSON", 0, FALSE, FALSE, NoDefault, NoDefault),
        Column("created_at", "DateTime", 0, FALSE, TRUE, func_now, NoDefault),
        Column("updated_at", "DateTime", 0, FALSE, TRUE, func_now, func_now) >>)

links ==
    Table("links", <<
        Column("id", "Integer", 0, TRUE, TRUE, NoDefault, NoDefault),
        Column("workspace_id", "String", Len500, FALSE, FALSE, NoDefault, NoDefault),
        Column("source_item_type", "String", Len100, FALSE, FALSE, NoDefault, NoDefault),
        Column("source_item_id", "String", Len500, FALSE, FALSE, NoDefault, NoDefault),
        Column("target_item_type", "String", Len100, FALSE, FALSE, NoDefault, NoDefault),
        Column("target_item_id", "String", Len500, FALSE, FALSE, NoDefault, NoDefault),
        Column("relationship_type", "String", Len200, FALSE, FALSE, NoDefault, NoDefault),
        Column("description", "Text", 0, FALSE, TRUE, NoDefault, NoDefault),
        Column("created_at", "DateTime", 0, FALSE, TRUE, func_now, NoDefault) >>)

\* metadata = MetaData() of create_conport_tables, in declaration order.
metadata ==
    << product_context, active_context, decisions, progress,
       system_patterns, custom_data, links >>

(***************************************************************************)
(* alembic/env.py: the tables of target_metadata, transcribed again from   *)
(* that file.                                                              *)
(***************************************************************************)
env_product_context ==
    Table("product_context", <<
        Column("id", "Integer", 0, TRUE, TRUE, NoDefault, NoDefault),
        Column("workspace_id", "String", Len500, FALSE, FALSE, NoDefault, NoDefault),
        Column("content", "JSON", 0, FALSE, TRUE, NoDefault, NoDefault),
        Column("version", "Integer", 0, FALSE, TRUE, IntV(VersionDefault), NoDefault),
        Column("created_at", "DateTime", 0, FALSE, TRUE, func_now, NoDefault),
        Column("updated_at", "DateTime", 0, FALSE, TRUE, func_now, func_now) >>)

env_active_context ==
    Table("active_context", <<
        Column("id", "Integer", 0, TRUE, TRUE, NoDefault, NoDefault),
        Column("workspace_id", "String", Len500, FALSE, FALSE, NoDefault, NoDefault),
        Column("content", "JSON", 0, FALSE, TRUE, NoDefault, NoDefault),
        Column("version", "Integer", 0, FALSE, TRUE, IntV(VersionDefault), NoDefault),
        Column("created_at", "DateTime", 0, FALSE, TRUE, func_now, NoDefault),
        Column("updated_at", "DateTime", 0, FALSE, TRUE, func_now, func_now) >>)

env_decisions ==
    Table("decisions", <<
        Column("id", "Integer", 0, TRUE, TRUE, NoDefault, NoDefault),
        Column("workspace_id", "String", Len500, FALSE, FALSE, NoDefault, NoDefault),
        Column("summary", "Text", 0, FALSE, FALSE, NoDefault, NoDefault),
        Column("rationale", "Text", 0, FALSE, TRUE, NoDefault, NoDefault),
        Column("implementation_details", "Text", 0, FALSE, TRUE, NoDefault, NoDefault),
        Column("tags", "JSON", 0, FALSE, TRUE, NoDefault, NoDefault),
        Column("created_at", "DateTime", 0, FALSE, TRUE, func_now, NoDefault),
        Column("updated_at", "DateTime", 0, FALSE, TRUE, func_now, func_now) >>)

\* Mutant: the two files drift, env.py loses the default of link_relationship_type.
env_progress_drift ==
    Table("progress", <<
        Column("id", "Integer", 0, TRUE, TRUE, NoDefault, NoDefault),
        Column("workspace_id", "String", Len500, FALSE, FALSE, NoDefault, NoDefault),
        Column("status", "String", Len100, FALSE, FALSE, NoDefault, NoDefault),
        Column("description", "Text", 0, FALSE, FALSE, NoDefault, NoDefault),
        Column("parent_id", "Integer", 0, FALSE, TRUE, NoDefault, NoDefault),
        Column("linked_item_type", "String", Len100, FALSE, TRUE, NoDefault, NoDefault),
        Column("linked_item_id", "String", Len500, FALSE, TRUE, NoDefault, NoDefault),
        Column("link_relationship_type", "String", Len100, FALSE, TRUE, NoDefault, NoDefault),
        Column("created_at", "DateTime", 0, FALSE, TRUE, func_now, NoDefault),
        Column("updated_at", "DateTime", 0, FALSE, TRUE, func_now, func_now) >>)

env_progress ==
    Table("progress", <<
        Column("id", "Integer", 0, TRUE, TRUE, NoDefault, NoDefault),
        Column("workspace_id", "String", Len500, FALSE, FALSE, NoDefault, NoDefault),
        Column("status", "String", Len100, FALSE, FALSE, NoDefault, NoDefault),
        Column("description", "Text", 0, FALSE, FALSE, NoDefault, NoDefault),
        Column("parent_id", "Integer", 0, FALSE, TRUE, NoDefault, NoDefault),
        Column("linked_item_type", "String", Len100, FALSE, TRUE, NoDefault, NoDefault),
        Column("linked_item_id", "String", Len500, FALSE, TRUE, NoDefault, NoDefault),
        Column("link_relationship_type", "String", Len100, FALSE, TRUE,
               StrV(RelatesToProgressLen), NoDefault),
        Column("created_at", "DateTime", 0, FALSE, TRUE, func_now, NoDefault),
        Column("updated_at", "DateTime", 0, FALSE, TRUE, func_now, func_now) >>)

env_system_patterns ==
    Table("system_patterns", <<
        Column("id", "Integer", 0, TRUE, TRUE, NoDefault, NoDefault),
        Column("workspace_id", "String", Len500, FALSE, FALSE, NoDefault, NoDefault),
        Column("name", "String", Len500, FALSE, FALSE, NoDefault, NoDefault),
        Column("description", "Text", 0, FALSE, TRUE, NoDefault, NoDefault),
        Column("tags", "JSON", 0, FALSE, TRUE, NoDefault, NoDefault),
        Column("created_at", "DateTime", 0, FALSE, TRUE, func_now, NoDefault),
        Column("updated_at", "DateTime", 0, FALSE, TRUE, func_now, func_now) >>)

env_custom_data ==
    Table("custom_data", <<
        Column("id", "Integer", 0, TRUE, TRUE, NoDefault, NoDefault),
        Column("workspace_id", "String", Len500, FALSE, FALSE, NoDefault, NoDefault),
        Column("category", "String", Len200, FALSE, FALSE, NoDefault, NoDefault),
        Column("key", "String", Len500, FALSE, FALSE, NoDefault, NoDefault),
        Column("value", "JSON", 0, FALSE, FALSE, NoDefault, NoDefault),
        Column("created_at", "DateTime", 0, FALSE, TRUE, func_now, NoDefault),
        Column("updated_at", "DateTime", 0, FALSE, TRUE, func_now, func_now) >>)

env_links ==
    Table("links", <<
        Column("id", "Integer", 0, TRUE, TRUE, NoDefault, NoDefault),
        Column("workspace_id", "String", Len500, FALSE, FALSE, NoDefault, NoDefault),
        Column("source_item_type", "String", Len100, FALSE, FALSE, NoDefault, NoDefault),
        Column("source_item_id", "String", Len500, FALSE, FALSE, NoDefault, NoDefault),
        Column("target_item_type", "String", Len100, FALSE, FALSE, NoDefault, NoDefault),
        Column("target_item_id", "String", Len500, FALSE, FALSE, NoDefault, NoDefault),
        Column("relationship_type", "String", Len200, FALSE, FALSE, NoDefault, NoDefault),
        Column("description", "Text", 0, FALSE, TRUE, NoDefault, NoDefault),
        Column("created_at", "DateTime", 0, FALSE, TRUE, func_now, NoDefault) >>)

\* target_metadata = metadata of alembic/env.py, in declaration order.
target_metadata ==
    << env_product_context, env_active_context, env_decisions, env_progress,
       env_system_patterns, env_custom_data, env_links >>


(***************************************************************************)
(* Bounds of the model.                                                    *)
(***************************************************************************)
\* Rows a database holds in all its tables together.
MaxRows == 1
\* The clock runs from 0 to MaxClock.
MaxClock == 1

(***************************************************************************)
(* Helpers over table declarations.                                        *)
(***************************************************************************)
Max(S) == CHOOSE x \in S : \A y \in S : y <= x

TableNames(md) == {md[i].name : i \in DOMAIN md}
TableOf(md, t) == md[CHOOSE i \in DOMAIN md : md[i].name = t]
Cols(tb) == {tb.columns[i] : i \in DOMAIN tb.columns}
ColNames(tb) == {c.name : c \in Cols(tb)}
ColOf(tb, n) == CHOOSE c \in Cols(tb) : c.name = n

\* The columns written with nullable=False.
Required(tb) == {c.name : c \in {x \in Cols(tb) : ~x.nullable}}

\* Mutant: nullable=False is lost, only the primary key is NOT NULL.
NotNullKeyOnly(col) == col.primary_key

\* CREATE TABLE renders NOT NULL for a primary key column and for nullable=False.
NotNull(col) == col.primary_key \/ ~col.nullable

\* A single Integer primary key column is the table's autoincrement column.
AutoIncrement(col) == col.primary_key /\ col.type = "Integer"

\* create_engine(f"sqlite:///{db_path}")
dialect == "sqlite"

\* SQLite gives VARCHAR(n) TEXT affinity and ignores n; SQLAlchemy checks no length.
LengthOk(col, v) ==
    \/ dialect = "sqlite"
    \/ col.length = 0
    \/ v.k # "str"
    \/ v.v <= col.length

\* The JSON type serialises Python None to the JSON document null
\* (none_as_null is False), every other type binds None as SQL NULL.
Bind(col, v) == IF col.type = "JSON" /\ v = NULL THEN JsonV(0) ELSE v

(***************************************************************************)
(* INSERT INTO tb (params...) at time now, into the rows the table holds.  *)
(* A column the statement does not name takes its default (now() is        *)
(* evaluated by the statement), the autoincrement column the next rowid,   *)
(* any other column NULL.                                                  *)
(***************************************************************************)
NextId(rows) == IF rows = {} THEN 1 ELSE Max({r["id"].v : r \in rows}) + 1

\* Mutant: a scalar default (default=1) is not applied.
InsertValueNoScalarDefault(col, rows, params, now) ==
    IF col.name \in DOMAIN params
           /\ ~(AutoIncrement(col) /\ params[col.name] = NULL)
    THEN Bind(col, params[col.name])
    ELSE IF col.default = func_now THEN TsV(now)
    ELSE IF AutoIncrement(col) THEN IntV(NextId(rows))
    ELSE NULL

InsertValue(col, rows, params, now) ==
    IF col.name \in DOMAIN params
           /\ ~(AutoIncrement(col) /\ params[col.name] = NULL)
    THEN Bind(col, params[col.name])
    ELSE IF col.default = func_now THEN TsV(now)
    ELSE IF col.default # NoDefault THEN col.default
    ELSE IF AutoIncrement(col) THEN IntV(NextId(rows))
    ELSE NULL

NewRow(tb, rows, params, now) ==
    [n \in ColNames(tb) |-> InsertValue(ColOf(tb, n), rows, params, now)]

\* The error the engine raises for writing row beside the rows others.
Violation(tb, row, others) ==
    IF \E c \in Cols(tb) : NotNull(c) /\ row[c.name] = NULL
    THEN "IntegrityError"
    ELSE IF \E r \in others : r["id"] = row["id"]
    THEN "IntegrityError"
    ELSE IF \E c \in Cols(tb) : ~LengthOk(c, row[c.name])
    THEN "DataError"
    ELSE "ok"

InsertRow(tb, rows, params, now) ==
    IF ~(DOMAIN params \subseteq ColNames(tb))
    THEN [status |-> "OperationalError", rows |-> rows]
    ELSE LET row == NewRow(tb, rows, params, now)
             err == Violation(tb, row, rows)
         IN  IF err # "ok"
             THEN [status |-> err, rows |-> rows]
             ELSE [status |-> "ok", rows |-> rows \cup {row}]

(***************************************************************************)
(* UPDATE tb SET assigned... WHERE id = id at time now.  A column with     *)
(* onupdate that the statement does not assign is set to now().            *)
(***************************************************************************)
\* Mutant: onupdate is ignored.
UpdateValueNoOnupdate(col, old, assigned, now) ==
    IF col.name \in DOMAIN assigned THEN Bind(col, assigned[col.name])
    ELSE old[col.name]

UpdateValue(col, old, assigned, now) ==
    IF col.name \in DOMAIN assigned THEN Bind(col, assigned[col.name])
    ELSE IF col.onupdate = func_now THEN TsV(now)
    ELSE old[col.name]

UpdatedRow(tb, old, assigned, now) ==
    [n \in ColNames(tb) |-> UpdateValue(ColOf(tb, n), old, assigned, now)]

UpdateRow(tb, rows, id, assigned, now) ==
    IF ~(DOMAIN assigned \subseteq ColNames(tb))
    THEN [status |-> "OperationalError", rows |-> rows]
    ELSE IF ~\E r \in rows : r["id"] = IntV(id)
    THEN [status |-> "ok", rows |-> rows]
    ELSE LET old == CHOOSE r \in rows : r["id"] = IntV(id)
             row == UpdatedRow(tb, old, assigned, now)
             err == Violation(tb, row, rows \ {old})
         IN  IF err # "ok"
             THEN [status |-> err, rows |-> rows]
             ELSE [status |-> "ok", rows |-> (rows \ {old}) \cup {row}]


(***************************************************************************)
(* The statements a caller sends.  A run of the caller works on one column *)
(* of one table (subject): its INSERT names the required columns with an   *)
(* ordinary value, except that it may leave the subject column out or give *)
(* it any value of its type (NULL, a string of the declared length or one  *)
(* longer, an explicit id, version or timestamp); its UPDATE assigns the   *)
(* subject column.                                                         *)
(***************************************************************************)
Samples(col) ==
    CASE col.type = "Integer" -> {NULL, IntV(1), IntV(2)}
      [] col.type = "String" -> {NULL, StrV(1), StrV(col.length), StrV(col.length + 1)}
      [] col.type = "Text" -> {NULL, StrV(1)}
      [] col.type = "JSON" -> {NULL, JsonV(1)}
      [] col.type = "DateTime" -> {NULL} \cup {TsV(i) : i \in 0..MaxClock}

BaseValue(col) ==
    CASE col.type = "Integer" -> IntV(1)
      [] col.type = "String" -> StrV(1)
      [] col.type = "Text" -> StrV(1)
      [] col.type = "JSON" -> JsonV(1)
      [] col.type = "DateTime" -> TsV(0)

\* The required columns, each with an ordinary value.
Minimal(tb) == [n \in Required(tb) |-> BaseValue(ColOf(tb, n))]

\* f without the key n.
Without(f, n) == [x \in DOMAIN f \ {n} |-> f[x]]
\* f with the key n set to v.
With(f, n, v) == [x \in DOMAIN f \cup {n} |-> IF x = n THEN v ELSE f[x]]

InsertParams(tb, c) ==
    {Minimal(tb), Without(Minimal(tb), c)}
        \cup {With(Minimal(tb), c, v) : v \in Samples(ColOf(tb, c))}

UpdateParams(tb, c) == {With(<<>>, c, v) : v \in Samples(ColOf(tb, c))}

(***************************************************************************)
(* State.                                                                  *)
(***************************************************************************)
VARIABLES
    db,         \* rows of the database built from conport_schema.py, by table name
    dbEnv,      \* rows of the database built from alembic/env.py, by table name
    status,     \* outcome of the last statement against db
    statusEnv,  \* outcome of the last statement against dbEnv
    now,        \* the engine's clock
    subject,    \* <<table, column>> the caller's statements vary
    \* create_conport_tables and ./conport.db
    schema,     \* the tables ./conport.db holds (Table records)
    writable,   \* whether ./conport.db can be opened for writing
    poolclass,  \* the pool create_engine gives the engine (the library's default)
    bootPc,     \* "idle", "engine", "creating", "returned", "raised"
    todo,       \* tables create_all has still to visit
    checkedOut, \* connections the bootstrap holds checked out
    bootPooled, \* open connections idle in the pools of the bootstrap's engines
    printed,    \* whether the running or last bootstrap printed its confirmation
    exits,      \* how each bootstrap run ended, oldest first
    \* run_migrations_online and the database of sqlalchemy.url
    target,          \* the tables the target database holds (Table records)
    transactional_ddl, \* whether Alembic runs this dialect's DDL in the enclosing transaction
    migPc,           \* "idle", "engine", "running", "returned", "raised"
    snapshot,        \* the target's tables when the run started (what its transaction began from)
    migConn,         \* connections the migration run holds open
    migPooled,       \* open connections idle in the pool of the run's engine
    stmts,           \* statements the running migration has executed
    migExits         \* how each migration run ended, oldest first

rowVars == <<db, dbEnv, status, statusEnv, now, subject>>
bootVars == <<schema, writable, poolclass, bootPc, todo, checkedOut, bootPooled,
              printed, exits>>
migVars == <<target, transactional_ddl, migPc, snapshot, migConn, migPooled,
             stmts, migExits>>
vars == <<rowVars, bootVars, migVars>>

RECURSIVE SumRows(_, _)
SumRows(d, S) ==
    IF S = {} THEN 0
    ELSE LET t == CHOOSE x \in S : TRUE
         IN  Cardinality(d[t]) + SumRows(d, S \ {t})

RowCount(d) == SumRows(d, DOMAIN d)

EmptyDb(md) == [t \in TableNames(md) |-> {}]

\* A caller executes INSERT INTO t against both databases.
Insert(t, params) ==
    /\ TableOf(metadata, t) \in schema
    /\ RowCount(db) < MaxRows
    /\ LET r == InsertRow(TableOf(metadata, t), db[t], params, now)
           e == InsertRow(TableOf(target_metadata, t), dbEnv[t], params, now)
       IN  /\ db' = [db EXCEPT ![t] = r.rows]
           /\ status' = r.status
           /\ dbEnv' = [dbEnv EXCEPT ![t] = e.rows]
           /\ statusEnv' = e.status
    /\ UNCHANGED <<now, subject, bootVars, migVars>>

\* A caller executes UPDATE t ... WHERE id = id against both databases.
Update(t, id, assigned) ==
    /\ TableOf(metadata, t) \in schema
    /\ LET r == UpdateRow(TableOf(metadata, t), db[t], id, assigned, now)
           e == UpdateRow(TableOf(target_metadata, t), dbEnv[t], id, assigned, now)
       IN  /\ db' = [db EXCEPT ![t] = r.rows]
           /\ status' = r.status
           /\ dbEnv' = [dbEnv EXCEPT ![t] = e.rows]
           /\ statusEnv' = e.status
    /\ UNCHANGED <<now, subject, bootVars, migVars>>

\* Time passes.  The engine's clock does not run backwards.
Tick ==
    /\ now < MaxClock
    /\ now' = now + 1
    /\ UNCHANGED <<db, dbEnv, status, statusEnv, subject, bootVars, migVars>>

Subjects == {<<tb.name, c>> : tb \in {metadata[i] : i \in DOMAIN metadata},
                              c \in UNION {ColNames(metadata[i]) : i \in DOMAIN metadata}}


(***************************************************************************)
(* DDL.  CREATE TABLE fails when a table of that name exists; DROP TABLE   *)
(* when none does.                                                         *)
(***************************************************************************)
\* Mutant: create_all(checkfirst=False), no table is ever found to exist.
has_table_unchecked(sch, name) == FALSE

has_table(sch, name) == \E x \in sch : x.name = name

CreateTable(sch, tb) ==
    IF \E x \in sch : x.name = tb.name
    THEN [status |-> "OperationalError", schema |-> sch]
    ELSE [status |-> "ok", schema |-> sch \cup {tb}]

DropTable(sch, tb) ==
    IF \E x \in sch : x.name = tb.name
    THEN [status |-> "ok", schema |-> {x \in sch : x.name # tb.name}]
    ELSE [status |-> "OperationalError", schema |-> sch]

\* create_engine names no poolclass: the engine gets the library's default for
\* a SQLite file, a NullPool before SQLAlchemy 2.0 and a QueuePool since.
\* Connections left open in a pool when one connection is returned to it:
\* a NullPool closes the connection, a QueuePool keeps it open.
Pooled(pool) == IF pool = "QueuePool" THEN 1 ELSE 0

(***************************************************************************)
(* create_conport_tables()                                                 *)
(***************************************************************************)
\* Runs of the bootstrap in one behaviour.
MaxRuns == 2

\* Mutant: the last table is never visited.
sorted_tables_short == [i \in 1..Len(metadata) - 1 |-> metadata[<<2, 6, 3, 7, 1, 4, 5>>[i]]]

\* metadata.sorted_tables: create_all visits the tables in name order
\* (active_context, custom_data, decisions, links, product_context, progress,
\* system_patterns), given here by their places in the declaration order.
sorted_tables == [i \in 1..Len(metadata) |-> metadata[<<2, 6, 3, 7, 1, 4, 5>>[i]]]

\* How a run ended and the tables it left.
Exit(st, sch) == [status |-> st, tables |-> sch]

BootRunning == bootPc \in {"engine", "creating"}

\* db_path, create_engine, MetaData() and the seven Table declarations.
create_engine ==
    /\ ~BootRunning
    /\ Len(exits) < MaxRuns
    /\ bootPc' = "engine"
    /\ todo' = sorted_tables
    /\ printed' = FALSE
    /\ UNCHANGED <<schema, writable, poolclass, checkedOut, bootPooled, exits>>
    /\ UNCHANGED <<rowVars, migVars>>

\* metadata.create_all(engine) opens a connection; an unwritable path raises.
create_all_connect ==
    /\ bootPc = "engine"
    /\ IF writable
       THEN /\ checkedOut' = checkedOut + 1
            /\ bootPc' = "creating"
            /\ exits' = exits
       ELSE /\ checkedOut' = checkedOut
            /\ bootPc' = "raised"
            /\ exits' = Append(exits, Exit("OperationalError", schema))
    /\ UNCHANGED <<schema, writable, poolclass, todo, bootPooled, printed>>
    /\ UNCHANGED <<rowVars, migVars>>

\* create_all, one table: checkfirst skips a table that exists, else CREATE TABLE.
\* A failing statement leaves the connection's block (the connection goes back
\* to the pool) and the exception leaves create_conport_tables.
create_all_table ==
    /\ bootPc = "creating"
    /\ todo # <<>>
    /\ LET tb == Head(todo)
           r == CreateTable(schema, tb)
       IN  IF has_table(schema, tb.name)
           THEN /\ todo' = Tail(todo)
                /\ UNCHANGED <<schema, bootPc, checkedOut, bootPooled, exits>>
           ELSE IF r.status = "ok"
           THEN /\ schema' = r.schema
                /\ todo' = Tail(todo)
                /\ UNCHANGED <<bootPc, checkedOut, bootPooled, exits>>
           ELSE /\ bootPc' = "raised"
                /\ checkedOut' = checkedOut - 1
                /\ bootPooled' = bootPooled + Pooled(poolclass)
                /\ exits' = Append(exits, Exit(r.status, schema))
                /\ UNCHANGED <<schema, todo>>
    /\ UNCHANGED <<writable, poolclass, printed>>
    /\ UNCHANGED <<rowVars, migVars>>

\* The engine fails a CREATE TABLE (disk full, I/O error).  SQLite has committed
\* the tables created before it.
create_all_table_fails ==
    /\ bootPc = "creating"
    /\ todo # <<>>
    /\ ~has_table(schema, Head(todo).name)
    /\ bootPc' = "raised"
    /\ checkedOut' = checkedOut - 1
    /\ bootPooled' = bootPooled + Pooled(poolclass)
    /\ exits' = Append(exits, Exit("DatabaseError", schema))
    /\ UNCHANGED <<schema, writable, poolclass, todo, printed>>
    /\ UNCHANGED <<rowVars, migVars>>

\* create_all returns (the connection goes back to the pool), print, return engine.
create_conport_tables_return ==
    /\ bootPc = "creating"
    /\ todo = <<>>
    /\ checkedOut' = checkedOut - 1
    /\ bootPooled' = bootPooled + Pooled(poolclass)
    /\ printed' = TRUE
    /\ bootPc' = "returned"
    /\ exits' = Append(exits, Exit("ok", schema))
    /\ UNCHANGED <<schema, writable, poolclass, todo>>
    /\ UNCHANGED <<rowVars, migVars>>

(***************************************************************************)
(* run_migrations_online()                                                 *)
(***************************************************************************)
\* Runs of the migration runner in one behaviour.
MaxMigrations == 2
\* Schema-change statements one run executes.
MaxStmts == 2

\* The pool engine_from_config is given: poolclass=pool.NullPool.
migPoolclass == "NullPool"

\* The statements a migration script can execute.  The scripts themselves are
\* not part of env.py: a run executes any CREATE TABLE or DROP TABLE of the
\* declared tables, at most MaxStmts of them.
MigrationOps(md) == {"create", "drop"} \X {md[i] : i \in DOMAIN md}

Execute(sch, op) ==
    IF op[1] = "create" THEN CreateTable(sch, op[2]) ELSE DropTable(sch, op[2])

\* Mutant: the failed run is not rolled back.
begin_transaction_failed_keeps(transactional, before, current) == current

\* transactional_ddl is the dialect's (context.configure sets none): FALSE for
\* SQLite and MySQL, TRUE for PostgreSQL.
\* What the target holds once the transaction block is left by an exception:
\* with transactional DDL the block is one transaction and is rolled back;
\* without, the block is no transaction and what was executed stays.
begin_transaction_failed(transactional, before, current) ==
    IF transactional THEN before ELSE current

MigRunning == migPc \in {"engine", "running"}

\* engine_from_config(...)
engine_from_config ==
    /\ ~MigRunning
    /\ Len(migExits) < MaxMigrations
    /\ migPc' = "engine"
    /\ snapshot' = target
    /\ stmts' = 0
    /\ UNCHANGED <<target, transactional_ddl, migConn, migPooled, migExits>>
    /\ UNCHANGED <<rowVars, bootVars>>

\* connectable.connect(), context.configure, context.begin_transaction()
connect ==
    /\ migPc = "engine"
    /\ migConn' = migConn + 1
    /\ migPc' = "running"
    /\ UNCHANGED <<target, transactional_ddl, snapshot, migPooled, stmts, migExits>>
    /\ UNCHANGED <<rowVars, bootVars>>

\* connectable.connect() raises: the database cannot be reached.
connect_fails ==
    /\ migPc = "engine"
    /\ migPc' = "raised"
    /\ migExits' = Append(migExits, "OperationalError")
    /\ UNCHANGED <<target, transactional_ddl, snapshot, migConn, migPooled, stmts>>
    /\ UNCHANGED <<rowVars, bootVars>>

\* context.run_migrations() executes one statement.  If it fails, the exception
\* leaves the transaction block, then the connection block (the connection is
\* closed), then run_migrations_online.
run_migrations(op) ==
    /\ migPc = "running"
    /\ stmts < MaxStmts
    /\ LET r == Execute(target, op)
       IN  IF r.status = "ok"
           THEN /\ target' = r.schema
                /\ stmts' = stmts + 1
                /\ UNCHANGED <<migPc, migConn, migPooled, migExits>>
           ELSE /\ target' = begin_transaction_failed(transactional_ddl, snapshot, target)
                /\ migConn' = migConn - 1
                /\ migPooled' = migPooled + Pooled(migPoolclass)
                /\ migPc' = "raised"
                /\ migExits' = Append(migExits, r.status)
                /\ UNCHANGED stmts
    /\ UNCHANGED <<transactional_ddl, snapshot>>
    /\ UNCHANGED <<rowVars, bootVars>>

\* The engine fails a statement for a reason of its own.
run_migrations_fails ==
    /\ migPc = "running"
    /\ stmts < MaxStmts
    /\ target' = begin_transaction_failed(transactional_ddl, snapshot, target)
    /\ migConn' = migConn - 1
    /\ migPooled' = migPooled + Pooled(migPoolclass)
    /\ migPc' = "raised"
    /\ migExits' = Append(migExits, "DatabaseError")
    /\ UNCHANGED <<transactional_ddl, snapshot, stmts>>
    /\ UNCHANGED <<rowVars, bootVars>>

\* run_migrations returns: the transaction block commits, the connection closes.
run_migrations_online_return ==
    /\ migPc = "running"
    /\ migConn' = migConn - 1
    /\ migPooled' = migPooled + Pooled(migPoolclass)
    /\ migPc' = "returned"
    /\ migExits' = Append(migExits, "ok")
    /\ UNCHANGED <<target, transactional_ddl, snapshot, stmts>>
    /\ UNCHANGED <<rowVars, bootVars>>

(***************************************************************************)
(* Specifications.                                                         *)
(***************************************************************************)
RowsIdle ==
    /\ db = EmptyDb(metadata)
    /\ dbEnv = EmptyDb(target_metadata)
    /\ status = "none"
    /\ statusEnv = "none"
    /\ now = 0
    /\ subject = <<"product_context", "id">>

BootIdle ==
    /\ schema = {}
    /\ bootPc = "idle"
    /\ todo = <<>>
    /\ checkedOut = 0
    /\ bootPooled = 0
    /\ printed = FALSE
    /\ exits = <<>>

MigIdle ==
    /\ target = {}
    /\ migPc = "idle"
    /\ snapshot = {}
    /\ migConn = 0
    /\ migPooled = 0
    /\ stmts = 0
    /\ migExits = <<>>

\* The bootstrap, run against an empty ./conport.db.
InitBootstrap ==
    /\ RowsIdle
    /\ BootIdle
    /\ writable \in BOOLEAN
    /\ poolclass \in {"NullPool", "QueuePool"}
    /\ MigIdle
    /\ transactional_ddl = FALSE

NextBootstrap ==
    \/ create_engine
    \/ create_all_connect
    \/ create_all_table
    \/ create_all_table_fails
    \/ create_conport_tables_return

SpecBootstrap == InitBootstrap /\ [][NextBootstrap]_vars

\* The migration runner, run against an empty target database.
InitMigration ==
    /\ RowsIdle
    /\ BootIdle
    /\ writable = TRUE
    /\ poolclass = "NullPool"
    /\ MigIdle
    /\ transactional_ddl \in BOOLEAN

NextMigration ==
    \/ engine_from_config
    \/ connect
    \/ connect_fails
    \/ \E op \in MigrationOps(target_metadata) : run_migrations(op)
    \/ run_migrations_fails
    \/ run_migrations_online_return

SpecMigration == InitMigration /\ [][NextMigration]_vars

\* A caller's statements against the databases the two declarations build:
\* the state after one successful bootstrap.
InitRows ==
    /\ db = EmptyDb(metadata)
    /\ dbEnv = EmptyDb(target_metadata)
    /\ status = "none"
    /\ statusEnv = "none"
    /\ now = 0
    /\ subject \in {s \in Subjects : s[2] \in ColNames(TableOf(metadata, s[1]))}
    /\ schema = {metadata[i] : i \in DOMAIN metadata}
    /\ writable = TRUE
    /\ poolclass = "NullPool"
    /\ bootPc = "returned"
    /\ todo = <<>>
    /\ checkedOut = 0
    /\ bootPooled = 0
    /\ printed = TRUE
    /\ exits = <<Exit("ok", schema)>>
    /\ MigIdle
    /\ transactional_ddl = FALSE

NextRows ==
    \/ \E params \in InsertParams(TableOf(metadata, subject[1]), subject[2]) :
          Insert(subject[1], params)
    \/ \E r \in db[subject[1]] :
          \E assigned \in UpdateParams(TableOf(metadata, subject[1]), subject[2]) :
             Update(subject[1], r["id"].v, assigned)
    \/ Tick

SpecRows == InitRows /\ [][NextRows]_vars

(***************************************************************************)
(* Properties of a caller's statements (SpecRows).                         *)
(***************************************************************************)
\* The table and the rows the caller's statements address.
SubjectTable == TableOf(metadata, subject[1])
SubjectRows == db[subject[1]]
AllTables == {metadata[i] : i \in DOMAIN metadata}
                 \cup {target_metadata[i] : i \in DOMAIN target_metadata}

\* The statement leaves out a column written with nullable=False and no default.
OmitsRequired(tb, p) ==
    \E c \in Cols(tb) : ~c.nullable /\ c.default = NoDefault /\ c.name \notin DOMAIN p

\* Every column the statement leaves out is nullable or the autoincrement key.
OmitsOnlyNullable(tb, p) ==
    \A c \in Cols(tb) : c.name \notin DOMAIN p => (c.nullable \/ AutoIncrement(c))

\* The values the statement does supply break no constraint of their own:
\* no NULL for a NOT NULL column, no id a row already has.
SuppliesValid(tb, rows, p) ==
    \A n \in DOMAIN p :
        LET c == ColOf(tb, n)
            v == Bind(c, p[n])
        IN  /\ (NotNull(c) /\ ~AutoIncrement(c)) => v # NULL
            /\ (c.primary_key /\ v # NULL) => \A r \in rows : r["id"] # v

\* C2: an INSERT that leaves out a column declared nullable=False (and without
\* a default) fails with an IntegrityError and leaves the table unchanged; an
\* INSERT that leaves out only nullable columns (the autoincrement id aside)
\* succeeds and stores NULL in each omitted nullable column without a default.
InsertNullability ==
    \A p \in InsertParams(SubjectTable, subject[2]) :
        LET r == InsertRow(SubjectTable, SubjectRows, p, now)
        IN  /\ OmitsRequired(SubjectTable, p) =>
                  r.status = "IntegrityError" /\ r.rows = SubjectRows
            /\ (OmitsOnlyNullable(SubjectTable, p)
                    /\ SuppliesValid(SubjectTable, SubjectRows, p)) =>
                  /\ r.status = "ok"
                  /\ \E n \in r.rows \ SubjectRows :
                        \A c \in Cols(SubjectTable) :
                            (c.name \notin DOMAIN p /\ c.default = NoDefault
                                 /\ ~AutoIncrement(c)) => n[c.name] = NULL

\* A decisions row inserted with workspace_id and summary only: rationale is NULL.
DecisionWithoutRationale ==
    /\ status = "ok"
    /\ \E r \in db["decisions"] :
          /\ r["rationale"] = NULL
          /\ r["summary"] = StrV(1)
          /\ r["workspace_id"] = StrV(1)

\* The rows an UPDATE of row old left in its place.
Replaced(old) == db'[subject[1]] \ (db[subject[1]] \ {old})

\* C3 as stated: every stored row has a non-null created_at, and every update
\* of a row leaves created_at unchanged and sets updated_at to a timestamp
\* greater than or equal to the previous one.
TimestampsAsStated ==
    [][ /\ \A r \in db'[subject[1]] : r["created_at"] # NULL
        /\ \A old \in SubjectRows :
             \A a \in UpdateParams(SubjectTable, subject[2]) :
                (Update(subject[1], old["id"].v, a) /\ status' = "ok") =>
                    \A new \in Replaced(old) :
                        /\ new["created_at"] = old["created_at"]
                        /\ "updated_at" \in DOMAIN new
                        /\ new["updated_at"].k = "ts"
                        /\ old["updated_at"].k = "ts"
                        /\ new["updated_at"].v >= old["updated_at"].v ]_vars

\* C3 as amended: a row inserted without an explicit created_at gets the
\* insert's time; an update that does not assign created_at leaves it
\* unchanged; in a table that declares updated_at, an update that does not
\* assign updated_at sets it to the update's time, which is greater than or
\* equal to the previous updated_at unless that was set to a later time.
TimestampsKept ==
    [][ /\ \A p \in InsertParams(SubjectTable, subject[2]) :
             (Insert(subject[1], p) /\ status' = "ok"
                  /\ "created_at" \notin DOMAIN p) =>
                 \A new \in db'[subject[1]] \ SubjectRows :
                     new["created_at"] = TsV(now)
        /\ \A old \in SubjectRows :
             \A a \in UpdateParams(SubjectTable, subject[2]) :
                (Update(subject[1], old["id"].v, a) /\ status' = "ok") =>
                    \A new \in Replaced(old) :
                        /\ "created_at" \notin DOMAIN a =>
                              new["created_at"] = old["created_at"]
                        /\ ("updated_at" \in DOMAIN new
                                /\ "updated_at" \notin DOMAIN a) =>
                              /\ new["updated_at"] = TsV(now)
                              /\ (old["updated_at"].k = "ts"
                                      /\ old["updated_at"].v <= now) =>
                                    new["updated_at"].v >= old["updated_at"].v ]_vars

\* A row updated after the clock moved: updated_at is later than created_at.
UpdatedLater ==
    /\ status = "ok"
    /\ subject[2] \notin {"created_at", "updated_at"}
    /\ \E r \in SubjectRows :
          /\ "updated_at" \in DOMAIN r
          /\ r["created_at"] = TsV(0)
          /\ r["updated_at"].k = "ts"
          /\ r["updated_at"].v > 0

\* The conventions of a table declaration.
HasWorkspaceId(tb) ==
    \E c \in Cols(tb) :
        /\ c.name = "workspace_id"
        /\ c.type = "String"
        /\ c.length = Len500
        /\ ~c.nullable
HasIntegerKey(tb) ==
    /\ \E c \in Cols(tb) : c.name = "id" /\ c.type = "Integer" /\ c.primary_key
    /\ \A c \in Cols(tb) : c.primary_key => c.name = "id"
HasCreatedAt(tb) ==
    \E c \in Cols(tb) :
        /\ c.name = "created_at"
        /\ c.type = "DateTime"
        /\ c.default = func_now
        /\ c.onupdate = NoDefault
HasUpdatedAt(tb) ==
    \E c \in Cols(tb) :
        /\ c.name = "updated_at"
        /\ c.type = "DateTime"
        /\ c.default = func_now
        /\ c.onupdate = func_now

\* C4 as stated: every table the database holds declares workspace_id, the
\* integer key and both timestamp columns.
ConventionsAsStated ==
    \A tb \in schema :
        HasWorkspaceId(tb) /\ HasIntegerKey(tb) /\ HasCreatedAt(tb) /\ HasUpdatedAt(tb)

\* C4 as amended: every table declares a required String(500) workspace_id, the
\* integer primary key id and created_at set at insert; every table but links
\* declares updated_at, refreshed at insert and on update; links declares no
\* updated_at.  Stored rows have exactly the declared columns.
Conventions ==
    /\ \A tb \in AllTables :
          /\ HasWorkspaceId(tb) /\ HasIntegerKey(tb) /\ HasCreatedAt(tb)
          /\ tb.name # "links" => HasUpdatedAt(tb)
          /\ tb.name = "links" => "updated_at" \notin ColNames(tb)
    /\ \A tb \in {metadata[i] : i \in DOMAIN metadata} :
          \A r \in db[tb.name] :
              /\ DOMAIN r = ColNames(tb)
              /\ r["workspace_id"].k = "str"
              /\ r["id"].k = "int"

\* A links row, stored and then updated, that carries created_at and no updated_at.
LinkWithoutUpdatedAt ==
    /\ status = "ok"
    /\ now > 0
    /\ \E r \in db["links"] :
          /\ "updated_at" \notin DOMAIN r
          /\ r["created_at"] = TsV(0)
          /\ r["description"] # NULL

\* C5: in product_context and active_context an INSERT that names no version
\* stores version 1, and an UPDATE that assigns no version leaves it as it was:
\* while no statement names version, every row's version is 1.
VersionKept ==
    subject[1] \in {"product_context", "active_context"} =>
        /\ \A p \in InsertParams(SubjectTable, subject[2]) :
              LET r == InsertRow(SubjectTable, SubjectRows, p, now)
              IN  (r.status = "ok" /\ "version" \notin DOMAIN p) =>
                      \A n \in r.rows \ SubjectRows : n["version"] = IntV(VersionDefault)
        /\ \A old \in SubjectRows :
              \A a \in UpdateParams(SubjectTable, subject[2]) :
                  "version" \notin DOMAIN a =>
                      UpdatedRow(SubjectTable, old, a, now)["version"] = old["version"]
        /\ subject[2] # "version" =>
              \A r \in SubjectRows : r["version"] = IntV(1)

\* An active_context row inserted without a version and updated later.
VersionOneAfterUpdate ==
    /\ subject = <<"active_context", "content">>
    /\ status = "ok"
    /\ \E r \in db["active_context"] :
          /\ r["version"] = IntV(1)
          /\ r["created_at"] = TsV(0)
          /\ r["updated_at"] = TsV(MaxClock)

\* C6: the two declarations are the same, table by table and column by column,
\* and the same statements leave the same rows and outcomes in the databases
\* built from them.
SchemasIdentical ==
    /\ metadata = target_metadata
    /\ db = dbEnv
    /\ status = statusEnv

\* A progress row stored in both databases with the default relationship type.
SameProgressRow ==
    /\ statusEnv = "ok"
    /\ \E r \in dbEnv["progress"] :
          /\ r \in db["progress"]
          /\ r["link_relationship_type"] = StrV(RelatesToProgressLen)

\* C9: no stored String value is longer than the column declares (an over-length
\* value is rejected, stored neither in full nor truncated).
LengthEnforced ==
    \A tb \in {metadata[i] : i \in DOMAIN metadata} :
        \A r \in db[tb.name] :
            \A c \in Cols(tb) :
                (c.type = "String" /\ r[c.name].k = "str") => r[c.name].v <= c.length

(***************************************************************************)
(* Properties of the bootstrap (SpecBootstrap).                            *)
(***************************************************************************)
\* C1: a bootstrap run that follows a successful one ends without an error and
\* leaves the tables the first one left; the database never holds two tables of
\* one name.
BootstrapIdempotent ==
    /\ \A i \in 1..Len(exits) - 1 :
          exits[i].status = "ok" =>
              /\ exits[i + 1].status = "ok"
              /\ exits[i + 1].tables = exits[i].tables
    /\ (Len(exits) > 0 /\ exits[Len(exits)].status = "ok") =>
          schema = exits[Len(exits)].tables
    /\ \A x \in schema : \A y \in schema : x.name = y.name => x = y

\* Two bootstrap runs in a row have both returned.
SecondRunReturned ==
    /\ Len(exits) = 2
    /\ exits[1].status = "ok"
    /\ exits[2].status = "ok"
    /\ bootPc = "returned"

\* C8: when a driver has returned or raised, no connection it opened is open:
\* none is checked out and none is held open by its engine's pool.
ConnectionsReleased ==
    /\ bootPc \in {"returned", "raised"} => checkedOut = 0 /\ bootPooled = 0
    /\ migPc \in {"returned", "raised"} => migConn = 0 /\ migPooled = 0

\* C10: a bootstrap of an empty database that returns has left exactly the
\* seven tables and printed its confirmation; a bootstrap that fails ends with
\* the error raised and nothing printed.
BootstrapCreatesSeven ==
    /\ bootPc = "returned" =>
          /\ {x.name : x \in schema} =
                 {"product_context", "active_context", "decisions", "progress",
                  "system_patterns", "custom_data", "links"}
          /\ Cardinality(schema) = 7
          /\ printed
          /\ exits[Len(exits)].status = "ok"
    /\ bootPc = "raised" =>
          /\ ~printed
          /\ exits[Len(exits)].status # "ok"

\* The first bootstrap of the empty database has returned.
FirstRunReturned ==
    /\ bootPc = "returned"
    /\ Len(exits) = 1
    /\ printed
    /\ Cardinality(schema) = 7

====
